---- MODULE Spec2Model ----
(***************************************************************************)
(* SplineComp (openmdao/components/spline_comp.py): an explicit component  *)
(* that registers named splines (add_spline), finalizes them (setup:       *)
(* resolves the control-point grid, declares outputs, inputs and the       *)
(* sparse partials, binds one InterpND engine per output), evaluates them  *)
(* (compute) and assembles their derivatives (compute_partials).           *)
(*                                                                         *)
(* numpy arrays are records [shape, data] with data the C-order buffer;    *)
(* 1-D index arrays (rows, cols, grids) are plain sequences.  Python's     *)
(* None is NoneVal; an exception is a record [type, msg] whose msg is the   *)
(* sequence of the parts its message is formatted from.                    *)
(***************************************************************************)
EXTENDS Integers, Sequences, FiniteSets, TLC

\* Bounds of the model: the largest vec_size, the largest number of
\* interpolated points and the largest number of control points.
MaxVecSize == 2
MaxInterp == 2
MaxCp == 2

ALL_METHODS == {"cubic", "slinear", "lagrange2", "lagrange3", "akima", "bsplines"}

\* The (y_cp_name, y_interp_name) pairs the host registers, in this order.
SplineNames == << <<"ycp1", "y1">>, <<"ycp2", "y2">> >>

VARIABLES
    options,            \* self.options
    _spline_cache,      \* self._spline_cache
    _n_cp,              \* self._n_cp
    interp_to_cp,       \* self.interp_to_cp : output name -> input name
    interps,            \* self.interps : output name -> InterpND engine
    iter_order,         \* the order in which iteritems(self.interps) yields
    var_inputs,         \* inputs declared with add_input : name -> value
    var_outputs,        \* outputs declared with add_output : name -> value
    declared_partials,  \* declare_partials calls : output name -> [cp, rows, cols]
    check_partial_fd,   \* set_check_partial_options('*', method='fd') was called
    outputs,            \* the host's outputs vector : name -> array
    partials,           \* the host's Jacobian : output name -> flat value array
    phase,              \* "new" until setup has been called, then "ready" / "failed"
    last_call           \* the last call made on the component and how it ended

vars == <<options, _spline_cache, _n_cp, interp_to_cp, interps, iter_order,
          var_inputs, var_outputs, declared_partials, check_partial_fd,
          outputs, partials, phase, last_call>>

----------------------------------------------------------------------------
(* Python values *)

NoneVal == [isNone |-> TRUE]
Some(v) == [isNone |-> FALSE, val |-> v]

NoExc == [type |-> "none", msg |-> <<>>]
Exc(type, msg) == [type |-> type, msg |-> msg]

\* A call on the component: the method, the exception it raised (NoExc when
\* it returned), the output whose spline was being processed when it raised,
\* and the engine evaluations it made, in order.
Call(op, raised, at, evals) == [op |-> op, raised |-> raised, at |-> at, evals |-> evals]

EmptyDict == [k \in {} |-> 0]
DictSet(d, k, v) == [x \in (DOMAIN d) \cup {k} |-> IF x = k THEN v ELSE d[x]]

----------------------------------------------------------------------------
(* numpy *)

RECURSIVE Prod(_)
Prod(shape) == IF shape = <<>> THEN 1 ELSE Head(shape) * Prod(Tail(shape))

NdArray(shape, data) == [shape |-> shape, data |-> data]

np_full(shape, v) == NdArray(shape, [i \in 1..Prod(shape) |-> v])
np_ones(shape) == np_full(shape, 1)
np_zeros(shape) == np_full(shape, 0)

np_arange(n) == [i \in 1..n |-> i - 1]
np_repeat(a, n) == [i \in 1..(Len(a) * n) |-> a[((i - 1) \div n) + 1]]
np_tile(a, n) == [i \in 1..(Len(a) * n) |-> a[((i - 1) % Len(a)) + 1]]
np_scale(c, a) == [i \in 1..Len(a) |-> c * a[i]]
np_add(a, b) == [i \in 1..Len(a) |-> a[i] + b[i]]

\* The C-order stride of dimension d of an array of this shape.
Stride(shape, d) == Prod(SubSeq(shape, d + 1, Len(shape)))
\* The index tuple (0-based) of the 0-based flat position i, and back.
Unravel(i, shape) == [d \in 1..Len(shape) |-> (i \div Stride(shape, d)) % shape[d]]
RECURSIVE RavelFrom(_, _, _)
RavelFrom(idx, shape, d) ==
    IF d > Len(shape) THEN 0
    ELSE idx[d] * Stride(shape, d) + RavelFrom(idx, shape, d + 1)
Ravel(idx, shape) == RavelFrom(idx, shape, 1)

\* numpy's broadcasting rule: trailing dimensions align, and each dimension
\* of the source is 1 or equals the target's.
Broadcastable(src, dst) ==
    /\ Len(src) <= Len(dst)
    /\ \A d \in 1..Len(src) : src[d] = 1 \/ src[d] = dst[Len(dst) - Len(src) + d]

BroadcastData(a, shape) ==
    LET off == Len(shape) - Len(a.shape)
    IN  [i \in 1..Prod(shape) |->
            LET t == Unravel(i - 1, shape)
                s == [d \in 1..Len(a.shape) |->
                        IF a.shape[d] = 1 THEN 0 ELSE t[off + d]]
            IN  a.data[Ravel(s, a.shape) + 1]]

np_broadcast_to(a, shape) == NdArray(shape, BroadcastData(a, shape))
np_flatten(a) == a.data
np_reshape(a, shape) == NdArray(shape, a.data)
\* a[0, :] of a 2-D array
FirstRow(a) == SubSeq(a.data, 1, a.shape[2])

----------------------------------------------------------------------------
(* The options the host constructs the component with (_declare_options).  *)

\* An explicit control-point grid of n positions, and the query locations:
\* n increasing positions starting after s.
ExplicitGrid(n) == [i \in 1..n |-> 2 * i]
XInterp(n, s) == [k \in 1..n |-> s + k]
XShifts == {0, 1}

OptionsOf(vec_size, method, x_interp_val, x_cp_val, num_cp) ==
    [vec_size |-> vec_size, method |-> method, x_interp_val |-> x_interp_val,
     x_cp_val |-> x_cp_val, num_cp |-> num_cp, interp_options |-> EmptyDict]

XCpChoices == {NoneVal} \cup {Some(ExplicitGrid(n)) : n \in 1..MaxCp}
NumCpChoices == {NoneVal} \cup {Some(n) : n \in 1..MaxCp}

AllOptions ==
    {OptionsOf(b, m, XInterp(k, 0), x, n) :
        b \in 1..MaxVecSize, m \in ALL_METHODS, k \in 1..MaxInterp,
        x \in XCpChoices, n \in NumCpChoices}

\* Default control values a host passes to add_spline: none, a 1-D array or
\* a 2-D array; entry i of the buffer holds 10 + i.
HostArray(shape) == NdArray(shape, [i \in 1..Prod(shape) |-> 10 + i])
AllCpVals ==
    {NoneVal}
    \cup {Some(HostArray(<<n>>)) : n \in 1..MaxCp}
    \cup {Some(HostArray(<<b, n>>)) : b \in 1..MaxVecSize, n \in 1..MaxCp}

----------------------------------------------------------------------------
(* __init__ *)

Init ==
    /\ options \in AllOptions
    /\ _spline_cache = <<>>
    /\ _n_cp = NoneVal
    /\ interp_to_cp = EmptyDict
    /\ interps = EmptyDict
    /\ iter_order = <<>>
    /\ var_inputs = EmptyDict
    /\ var_outputs = EmptyDict
    /\ declared_partials = EmptyDict
    /\ check_partial_fd = FALSE
    /\ outputs = EmptyDict
    /\ partials = EmptyDict
    /\ phase = "new"
    /\ last_call = Call("__init__", NoExc, "", <<>>)

----------------------------------------------------------------------------
(* add_spline *)

add_spline(cp_vals) ==
    /\ phase = "new"
    /\ Len(_spline_cache) < Len(SplineNames)
    /\ \E y_cp_val \in cp_vals :
        LET names == SplineNames[Len(_spline_cache) + 1]
        IN  _spline_cache' = Append(_spline_cache,
                [y_cp_name |-> names[1], y_interp_name |-> names[2],
                 y_cp_val |-> y_cp_val, y_units |-> NoneVal])
    /\ last_call' = Call("add_spline", NoExc, "", <<>>)
    /\ UNCHANGED <<options, _n_cp, interp_to_cp, interps, iter_order, var_inputs,
                   var_outputs, declared_partials, check_partial_fd, outputs,
                   partials, phase>>

----------------------------------------------------------------------------
(* setup *)

MsgBsplines == "'x_cp_val' is not a valid option when using method 'bsplines'. Set 'num_cp' instead."
MsgBoth == "It is not valid to set both options 'x_cp_val' and 'num_cp'."
MsgNeither == "Either option 'x_cp_val' or 'num_cp' must be set."
ConfigMsgs == {MsgBsplines, MsgBoth, MsgNeither}
MsgReshape == "cannot reshape array into shape (vec_size, n_cp)"

GridError(msg) == [raised |-> Exc("ValueError", <<msg>>), grid |-> <<>>, n_cp |-> NoneVal]

\* ResolveGrid without the check of x_cp_val against method 'bsplines'.
ResolveGridAnyMethod(interp_method, x_cp_val, n_cp) ==
    IF ~x_cp_val.isNone
    THEN IF ~n_cp.isNone THEN GridError(MsgBoth)
         ELSE [raised |-> NoExc, grid |-> x_cp_val.val, n_cp |-> Some(Len(x_cp_val.val))]
    ELSE IF ~n_cp.isNone
    THEN [raised |-> NoExc, grid |-> np_arange(n_cp.val), n_cp |-> n_cp]
    ELSE GridError(MsgNeither)

\* The grid and the number of control points the options configure, or the
\* ValueError setup raises for them.
ResolveGrid(interp_method, x_cp_val, n_cp) ==
    IF ~x_cp_val.isNone
    THEN IF interp_method = "bsplines" THEN GridError(MsgBsplines)
         ELSE IF ~n_cp.isNone THEN GridError(MsgBoth)
         ELSE [raised |-> NoExc, grid |-> x_cp_val.val, n_cp |-> Some(Len(x_cp_val.val))]
    ELSE IF ~n_cp.isNone
    THEN [raised |-> NoExc, grid |-> np_arange(n_cp.val), n_cp |-> n_cp]
    ELSE GridError(MsgNeither)

\* SparsityRows without the offset of each batch block.
SparsityRowsNoOffset(n_interp, n_cp, vec_size) ==
    np_tile(np_repeat(np_arange(n_interp), n_cp), vec_size)

\* SparsityCols with the control index repeated instead of tiled
\* (column-major inside a block).
SparsityColsRepeated(n_interp, n_cp, vec_size) ==
    LET col == np_repeat(np_arange(n_cp), n_interp)
    IN  np_add(np_tile(col, vec_size),
               np_repeat(np_scale(n_cp, np_arange(vec_size)), n_interp * n_cp))

\* The rows and cols of the partials of one spline.
SparsityRows(n_interp, n_cp, vec_size) ==
    LET row == np_repeat(np_arange(n_interp), n_cp)
    IN  np_add(np_tile(row, vec_size),
               np_repeat(np_scale(n_interp, np_arange(vec_size)), n_interp * n_cp))

SparsityCols(n_interp, n_cp, vec_size) ==
    LET col == np_tile(np_arange(n_cp), n_interp)
    IN  np_add(np_tile(col, vec_size),
               np_repeat(np_scale(n_cp, np_arange(vec_size)), n_interp * n_cp))

\* What a freshly constructed InterpND holds: the grid, the values it was
\* sized with, the method, the query locations, its two derivative flags
\* and no cached derivative.
InterpND(points, values, interp_method, x_interp, bounds_error, opts) ==
    [grid |-> points[1], values |-> values, interp_method |-> interp_method,
     x_interp |-> x_interp, bounds_error |-> bounds_error, opts |-> opts,
     _compute_d_dvalues |-> FALSE, _compute_d_dx |-> TRUE,
     _d_dvalues |-> [kind |-> "None", shape |-> <<>>, data |-> <<>>]]

\* The component's declarations: what setup builds up spline by spline.
NoDeclarations ==
    [raised |-> NoExc, n_cp |-> NoneVal, interp_to_cp |-> EmptyDict,
     interps |-> EmptyDict, var_inputs |-> EmptyDict, var_outputs |-> EmptyDict,
     declared_partials |-> EmptyDict]

\* The default control values as setup declares them: ones when absent, a
\* 1-D array reshaped to (vec_size, n_cp), a 2-D array as it is.
CpValResult(y_cp_val, vec_size, n_cp) ==
    IF y_cp_val.isNone
    THEN [raised |-> NoExc, val |-> np_ones(<<vec_size, n_cp>>)]
    ELSE IF Len(y_cp_val.val.shape) < 2
    THEN IF Prod(y_cp_val.val.shape) = vec_size * n_cp
         THEN [raised |-> NoExc, val |-> np_reshape(y_cp_val.val, <<vec_size, n_cp>>)]
         ELSE [raised |-> Exc("ValueError", <<MsgReshape>>), val |-> y_cp_val.val]
    ELSE [raised |-> NoExc, val |-> y_cp_val.val]

\* One pass of setup's loop over the cached add_spline arguments.
SetupSpline(comp, s, opts, grid, n_cp) ==
    LET vec_size == opts.vec_size
        n_interp == Len(opts.x_interp_val)
        withOut  == [comp EXCEPT !.var_outputs =
                        DictSet(@, s.y_interp_name, np_ones(<<vec_size, n_interp>>))]
        cp       == CpValResult(s.y_cp_val, vec_size, n_cp)
        rows     == SparsityRows(n_interp, n_cp, vec_size)
        cols     == SparsityCols(n_interp, n_cp, vec_size)
        cp_val   == FirstRow(cp.val)
    IN  IF cp.raised # NoExc
        THEN [withOut EXCEPT !.raised = cp.raised]
        ELSE [withOut EXCEPT
                !.var_inputs = DictSet(@, s.y_cp_name, cp.val),
                !.interp_to_cp = DictSet(@, s.y_interp_name, s.y_cp_name),
                !.declared_partials = DictSet(@, s.y_interp_name,
                    [cp |-> s.y_cp_name, rows |-> rows, cols |-> cols]),
                !.interps = DictSet(@, s.y_interp_name,
                    InterpND(<<grid>>, cp_val, opts.method, opts.x_interp_val,
                             FALSE, opts.interp_options))]

RECURSIVE SetupLoop(_, _, _, _, _, _)
SetupLoop(comp, cache, i, opts, grid, n_cp) ==
    IF i > Len(cache) \/ comp.raised # NoExc THEN comp
    ELSE SetupLoop(SetupSpline(comp, cache[i], opts, grid, n_cp),
                   cache, i + 1, opts, grid, n_cp)

\* SetupOutcome with the outputs added before the grid is resolved.
SetupOutcomeOutputsFirst(opts, cache) ==
    LET g == ResolveGrid(opts.method, opts.x_cp_val, opts.num_cp)
        outs == [o \in {cache[i].y_interp_name : i \in 1..Len(cache)} |->
                    np_ones(<<opts.vec_size, Len(opts.x_interp_val)>>)]
    IN  IF g.raised # NoExc
        THEN [NoDeclarations EXCEPT !.raised = g.raised, !.var_outputs = outs]
        ELSE SetupLoop([NoDeclarations EXCEPT !.n_cp = g.n_cp],
                       cache, 1, opts, g.grid, g.n_cp.val)

\* setup, from the options and the cached splines to the declarations made
\* and the exception raised, if any.
SetupOutcome(opts, cache) ==
    LET g == ResolveGrid(opts.method, opts.x_cp_val, opts.num_cp)
    IN  IF g.raised # NoExc
        THEN [NoDeclarations EXCEPT !.raised = g.raised]
        ELSE SetupLoop([NoDeclarations EXCEPT !.n_cp = g.n_cp],
                       cache, 1, opts, g.grid, g.n_cp.val)

\* No method of ALL_METHODS starts with 'scipy'.
StartsWithScipy(method) == method \in {}

Perms(S) ==
    {p \in [1..Cardinality(S) -> S] : \A i, j \in DOMAIN p : i # j => p[i] # p[j]}

\* The host's outputs vector starts from the values the outputs were added
\* with; iteritems yields the engines in an order fixed by the dict.
setup ==
    /\ phase = "new"
    /\ LET r == SetupOutcome(options, _spline_cache)
       IN  /\ _n_cp' = r.n_cp
           /\ interp_to_cp' = r.interp_to_cp
           /\ interps' = r.interps
           /\ iter_order' \in Perms(DOMAIN r.interps)
           /\ var_inputs' = r.var_inputs
           /\ var_outputs' = r.var_outputs
           /\ declared_partials' = r.declared_partials
           /\ check_partial_fd' = (r.raised = NoExc /\ StartsWithScipy(options.method))
           /\ outputs' = r.var_outputs
           /\ phase' = IF r.raised = NoExc THEN "ready" ELSE "failed"
           /\ last_call' = Call("setup", r.raised, "", <<>>)
    /\ UNCHANGED <<options, _spline_cache, partials>>

----------------------------------------------------------------------------
(* The interpolation engine, as the component consumes it.  An entry of a  *)
(* derivative array is the number DerivEntry(b, x, j): the derivative of   *)
(* the value interpolated at position x in batch row b (numbered from 1; 0 *)
(* when the derivative is the same for every row) with respect to control *)
(* point j (numbered from 1).                                              *)

DerivEntry(b, x, j) == b * 10000 + x * 100 + j
InterpEntry(b, x) == b * 100 + x

NoDeriv == [kind |-> "None", shape |-> <<>>, data |-> <<>>]

\* The derivative an evaluation caches when derivatives with respect to the
\* values are requested: one (n_interp, n_cp) matrix per row of values for
\* akima, one sparse (n_interp, n_cp) matrix for bsplines, none otherwise.
EngineDerivative(interp, nb) ==
    LET xs == interp.x_interp
        K  == Len(xs)
        J  == Len(interp.grid)
    IN  IF ~interp._compute_d_dvalues THEN NoDeriv
        ELSE IF interp.interp_method = "akima"
        THEN [kind |-> "ndarray", shape |-> <<nb, K, J>>,
              data |-> [i \in 1..(nb * K * J) |->
                          LET t == Unravel(i - 1, <<nb, K, J>>)
                          IN  DerivEntry(t[1] + 1, xs[t[2] + 1], t[3] + 1)]]
        ELSE IF interp.interp_method = "bsplines"
        THEN [kind |-> "sparse", shape |-> <<K, J>>,
              data |-> [i \in 1..(K * J) |->
                          LET t == Unravel(i - 1, <<K, J>>)
                          IN  DerivEntry(0, xs[t[1] + 1], t[2] + 1)]]
        ELSE NoDeriv

MsgEngine == "engine: value out of domain"
EngineOutcomes == {"ok", "ValueError"}

\* interp.evaluate_spline(values): the interpolated (rows of values,
\* n_interp) array and the engine with its derivative cached, or the
\* ValueError the engine raises.
evaluate_spline(interp, values, outcome) ==
    LET nb == values.shape[1]
        xs == interp.x_interp
    IN  IF outcome = "ValueError"
        THEN [raised |-> Exc("ValueError", <<MsgEngine>>), interp |-> interp,
              result |-> NdArray(<<0>>, <<>>)]
        ELSE [raised |-> NoExc,
              interp |-> [interp EXCEPT !._d_dvalues = EngineDerivative(interp, nb)],
              result |-> NdArray(<<nb, Len(xs)>>,
                          [i \in 1..(nb * Len(xs)) |->
                              LET t == Unravel(i - 1, <<nb, Len(xs)>>)
                              IN  InterpEntry(t[1] + 1, xs[t[2] + 1])])]

\* interp.training_gradients(pt): the gradient of the value interpolated at
\* the one position of pt with respect to the control points.
training_gradients(interp, pt) ==
    NdArray(<<Len(interp.grid)>>,
            [j \in 1..Len(interp.grid) |-> DerivEntry(0, pt[1], j)])

\* What the engine saw when it was asked to evaluate, and how it answered.
Evaluation(out, interp, raised) ==
    [out |-> out, _compute_d_dvalues |-> interp._compute_d_dvalues,
     _compute_d_dx |-> interp._compute_d_dx, x_interp |-> interp.x_interp,
     raised |-> raised]

----------------------------------------------------------------------------
(* compute *)

MsgInterpolating == "Error interpolating output"

\* PrepareEngine without the replacement of the engine's query locations.
PrepareEngineKeepX(interp, x_interp_val) ==
    [interp EXCEPT !._compute_d_dvalues = TRUE, !._compute_d_dx = FALSE]

\* The engine as compute sets it before the evaluation.
PrepareEngine(interp, x_interp_val) ==
    [interp EXCEPT !._compute_d_dvalues = TRUE, !._compute_d_dx = FALSE,
                   !.x_interp = x_interp_val]

\* One pass of compute's loop: st holds the engines, the outputs vector,
\* the exception raised so far and the evaluations made.
ComputeSpline(st, out_name, i2c, inputs, opts, outcome) ==
    LET values == inputs[i2c[out_name]]
        interp == PrepareEngine(st.interps[out_name], opts.x_interp_val)
        r      == evaluate_spline(interp, values, outcome)
        evals  == Append(st.evals, Evaluation(out_name, interp, r.raised))
    IN  IF r.raised.type = "ValueError"
        THEN [st EXCEPT !.interps[out_name] = r.interp,
                        !.evals = evals,
                        !.at = out_name,
                        !.raised = Exc("ValueError",
                            <<MsgInterpolating, out_name>> \o r.raised.msg)]
        ELSE [st EXCEPT !.interps[out_name] = r.interp,
                        !.evals = evals,
                        !.outputs[out_name] = r.result]

\* ComputeLoop going on with the remaining splines after an engine raised.
RECURSIVE ComputeLoopGoOn(_, _, _, _, _, _, _)
ComputeLoopGoOn(st, order, i, i2c, inputs, opts, outcomes) ==
    IF i > Len(order) THEN st
    ELSE LET n == ComputeSpline(st, order[i], i2c, inputs, opts, outcomes[order[i]])
         IN  ComputeLoopGoOn(
                IF st.raised # NoExc
                THEN [n EXCEPT !.raised = st.raised, !.at = st.at] ELSE n,
                order, i + 1, i2c, inputs, opts, outcomes)

RECURSIVE ComputeLoop(_, _, _, _, _, _, _)
ComputeLoop(st, order, i, i2c, inputs, opts, outcomes) ==
    IF i > Len(order) \/ st.raised # NoExc THEN st
    ELSE ComputeLoop(
            ComputeSpline(st, order[i], i2c, inputs, opts, outcomes[order[i]]),
            order, i + 1, i2c, inputs, opts, outcomes)

compute ==
    /\ phase = "ready"
    /\ \E inputs \in {var_inputs}, outcomes \in [DOMAIN interps -> EngineOutcomes] :
        LET st == ComputeLoop(
                    [interps |-> interps, outputs |-> outputs, raised |-> NoExc,
                     at |-> "", evals |-> <<>>],
                    iter_order, 1, interp_to_cp, inputs, options, outcomes)
        IN  /\ interps' = st.interps
            /\ outputs' = st.outputs
            /\ last_call' = Call("compute", st.raised, st.at, st.evals)
    /\ UNCHANGED <<options, _spline_cache, _n_cp, interp_to_cp, iter_order,
                   var_inputs, var_outputs, declared_partials, check_partial_fd,
                   partials, phase>>

----------------------------------------------------------------------------
(* compute_partials *)

MsgToarray == "'numpy.ndarray' object has no attribute 'toarray'"
MsgSparseAssign == "float() argument must be a string or a number, not a sparse matrix"
MsgBroadcast == "could not broadcast input array"

\* target[:] = value for a target of this shape: numpy broadcasts an array
\* and cannot convert a sparse matrix to floats (a TypeError, or on older
\* releases a ValueError; either way nothing is assigned).
SetAll(shape, value) ==
    IF value.kind = "sparse"
    THEN [raised |-> Exc("TypeError", <<MsgSparseAssign>>), val |-> np_zeros(shape)]
    ELSE IF ~Broadcastable(value.shape, shape)
    THEN [raised |-> Exc("ValueError", <<MsgBroadcast>>), val |-> np_zeros(shape)]
    ELSE [raised |-> NoExc, val |-> np_broadcast_to(value, shape)]

\* d_dvalues.toarray(): a sparse matrix has it, an ndarray has not.
toarray(d) ==
    IF d.kind = "sparse"
    THEN [raised |-> NoExc, val |-> [kind |-> "ndarray", shape |-> d.shape, data |-> d.data]]
    ELSE [raised |-> Exc("AttributeError", <<MsgToarray>>), val |-> d]

\* dy_ddata of one spline before it is flattened, or the exception raised
\* on the way.
AssembleDerivative(interp, vec_size, n_interp, n_cp, x_interp) ==
    LET d_dvalues == interp._d_dvalues
        full == <<vec_size, n_interp, n_cp>>
    IN  IF d_dvalues.kind # "None"
        THEN IF d_dvalues.shape[1] = vec_size
             THEN SetAll(full, d_dvalues)
             ELSE LET dense == toarray(d_dvalues)
                  IN  IF dense.raised # NoExc
                      THEN [raised |-> dense.raised, val |-> np_zeros(full)]
                      ELSE IF ~Broadcastable(dense.val.shape, full)
                      THEN [raised |-> Exc("ValueError", <<MsgBroadcast>>),
                            val |-> np_zeros(full)]
                      ELSE SetAll(full, [kind |-> "ndarray", shape |-> full,
                                         data |-> BroadcastData(dense.val, full)])
        ELSE LET Grad(k) == training_gradients(interp, SubSeq(x_interp, k + 1, k + 1))
             IN  IF ~Broadcastable(Grad(0).shape, <<n_cp>>)
                 THEN [raised |-> Exc("ValueError", <<MsgBroadcast>>),
                       val |-> np_zeros(<<n_interp, n_cp>>)]
                 ELSE LET dy_ddata ==
                            NdArray(<<n_interp, n_cp>>,
                                [i \in 1..(n_interp * n_cp) |->
                                    LET t == Unravel(i - 1, <<n_interp, n_cp>>)
                                    IN  BroadcastData(Grad(t[1]), <<n_cp>>)[t[2] + 1]])
                      IN  [raised |-> NoExc, val |-> np_broadcast_to(dy_ddata, full)]

\* One pass of compute_partials' loop: st holds the Jacobian and the
\* exception raised so far.
PartialsSpline(st, out_name, ints, i2c, opts, n_cp) ==
    LET cp_name == i2c[out_name]
        r == AssembleDerivative(ints[out_name], opts.vec_size,
                                Len(opts.x_interp_val), n_cp, opts.x_interp_val)
    IN  IF r.raised # NoExc
        THEN [st EXCEPT !.raised = r.raised, !.at = out_name]
        ELSE [st EXCEPT !.partials = DictSet(@, <<out_name, cp_name>>, np_flatten(r.val))]

RECURSIVE PartialsLoop(_, _, _, _, _, _, _)
PartialsLoop(st, order, i, ints, i2c, opts, n_cp) ==
    IF i > Len(order) \/ st.raised # NoExc THEN st
    ELSE PartialsLoop(PartialsSpline(st, order[i], ints, i2c, opts, n_cp),
                      order, i + 1, ints, i2c, opts, n_cp)

compute_partials ==
    /\ phase = "ready"
    /\ LET st == PartialsLoop([partials |-> partials, raised |-> NoExc, at |-> ""],
                              iter_order, 1, interps, interp_to_cp, options, _n_cp.val)
       IN  /\ partials' = st.partials
           /\ last_call' = Call("compute_partials", st.raised, st.at, <<>>)
    /\ UNCHANGED <<options, _spline_cache, _n_cp, interp_to_cp, interps, iter_order,
                   var_inputs, var_outputs, declared_partials, check_partial_fd,
                   outputs, phase>>

----------------------------------------------------------------------------
(* The host replaces options['x_interp_val'] between calls, keeping its    *)
(* length.                                                                  *)

set_x_interp_val ==
    /\ phase = "ready"
    /\ \E s \in XShifts :
        /\ options.x_interp_val # XInterp(Len(options.x_interp_val), s)
        /\ options' = [options EXCEPT !.x_interp_val = XInterp(Len(@), s)]
    /\ last_call' = Call("options.__setitem__", NoExc, "", <<>>)
    /\ UNCHANGED <<_spline_cache, _n_cp, interp_to_cp, interps, iter_order,
                   var_inputs, var_outputs, declared_partials, check_partial_fd,
                   outputs, partials, phase>>

----------------------------------------------------------------------------
(* The evaluation and the derivative assembly of a finalized component.    *)
(* One method stands for each family of derivative sources: akima (one     *)
(* matrix per batch row), bsplines (one sparse matrix), slinear (none      *)
(* cached, queried point by point).  Under Spec the default control values *)
(* are absent or 2-D with as many columns as the options configure control *)
(* points; under SpecEval, which leaves compute_partials out, they are     *)
(* absent.                                                                 *)

RunMethods == {"akima", "bsplines", "slinear"}

InitRun == Init /\ options.method \in RunMethods

RunCpVals ==
    LET g == ResolveGrid(options.method, options.x_cp_val, options.num_cp)
    IN  {NoneVal} \cup
        (IF g.raised # NoExc THEN {}
         ELSE {Some(HostArray(<<b, g.n_cp.val>>)) : b \in 1..MaxVecSize})

NextEval ==
    \/ add_spline({NoneVal})
    \/ setup
    \/ compute
    \/ set_x_interp_val

SpecEval == InitRun /\ [][NextEval]_vars

Next ==
    \/ add_spline(RunCpVals)
    \/ setup
    \/ compute
    \/ compute_partials
    \/ set_x_interp_val

Spec == InitRun /\ [][Next]_vars

----------------------------------------------------------------------------
(* The configuration and finalization of the component, over every          *)
(* combination of options and every default control value.                  *)

NextSetup == add_spline(AllCpVals) \/ setup
SpecSetup == Init /\ [][NextSetup]_vars

----------------------------------------------------------------------------
(* Properties of setup *)

SetupCalled == last_call.op = "setup"
ConfigErrorRaised ==
    last_call.raised \in {Exc("ValueError", <<m>>) : m \in ConfigMsgs}
XCpSet == ~options.x_cp_val.isNone
NumCpSet == ~options.num_cp.isNone
BadGridConfig ==
    \/ XCpSet /\ NumCpSet
    \/ ~XCpSet /\ ~NumCpSet
    \/ XCpSet /\ options.method = "bsplines"

\* C1: setup raises a configuration ValueError if and only if x_cp_val and
\* num_cp are both set, or neither is set, or x_cp_val is set with method
\* bsplines; in every other combination it resolves the grid: _n_cp is the
\* length of x_cp_val or the value of num_cp.
C1_ConfigErrorIffBadGrid ==
    SetupCalled =>
        /\ ConfigErrorRaised <=> BadGridConfig
        /\ ~BadGridConfig =>
            /\ ~_n_cp.isNone
            /\ _n_cp.val = IF XCpSet THEN Len(options.x_cp_val.val)
                           ELSE options.num_cp.val

C1_Witness ==
    /\ SetupCalled
    /\ options.method = "bsplines" /\ XCpSet /\ ~NumCpSet
    /\ last_call.raised = Exc("ValueError", <<MsgBsplines>>)

\* C2: the rows and cols declared for every spline have vec_size * n_interp
\* * n_cp entries each, and the entry at b*n_interp*n_cp + k*n_cp + j is
\* rows = b*n_interp + k and cols = b*n_cp + j.
C2_RowsColsLayout ==
    \A o \in DOMAIN declared_partials :
        LET B == options.vec_size
            K == Len(options.x_interp_val)
            J == _n_cp.val
            d == declared_partials[o]
        IN  /\ Len(d.rows) = B * K * J
            /\ Len(d.cols) = B * K * J
            /\ \A b \in 0..(B - 1), k \in 0..(K - 1), j \in 0..(J - 1) :
                LET i == b * K * J + k * J + j
                IN  d.rows[i + 1] = b * K + k /\ d.cols[i + 1] = b * J + j

C2_Witness ==
    /\ "y2" \in DOMAIN declared_partials
    /\ options.vec_size = 2 /\ Len(options.x_interp_val) = 2 /\ _n_cp = Some(2)
    /\ Len(declared_partials["y2"].rows) = 8

\* C3: the declared pattern is block-diagonal by batch: the batch of every
\* entry's row (rows[i] div n_interp) is the batch of its column (cols[i]
\* div n_cp), and entries of different batch blocks never share a row index.
C3_BlockDiagonal ==
    \A o \in DOMAIN declared_partials :
        LET K == Len(options.x_interp_val)
            J == _n_cp.val
            d == declared_partials[o]
            Block(i) == (i - 1) \div (K * J)
        IN  /\ \A i \in 1..Len(d.rows) : d.rows[i] \div K = d.cols[i] \div J
            /\ \A i, i2 \in 1..Len(d.rows) :
                Block(i) # Block(i2) => d.rows[i] # d.rows[i2]

C3_Witness ==
    /\ "y1" \in DOMAIN declared_partials
    /\ options.vec_size = 2
    /\ \E i \in 1..Len(declared_partials["y1"].rows) :
        declared_partials["y1"].rows[i] \div Len(options.x_interp_val) = 1

\* C7: when setup raises a configuration error, nothing has been declared:
\* no output, no input, no partials, no engine, interp_to_cp and interps are
\* empty and _n_cp is None.
C7_ConfigErrorBeforeDeclarations ==
    (SetupCalled /\ ConfigErrorRaised) =>
        /\ var_outputs = EmptyDict
        /\ var_inputs = EmptyDict
        /\ declared_partials = EmptyDict
        /\ interps = EmptyDict
        /\ interp_to_cp = EmptyDict
        /\ _n_cp = NoneVal

C7_Witness ==
    /\ SetupCalled /\ ConfigErrorRaised
    /\ Len(_spline_cache) = 2
    /\ XCpSet /\ NumCpSet

\* The shapes of default control values the data model admits.
NominalCpVal(v, B, J) ==
    v.isNone \/ v.val.shape = <<J>> \/ v.val.shape = <<B, J>>

\* C9: with the grid resolved and every spline's default control values
\* absent, of shape (n_cp,) or of shape (vec_size, n_cp), setup declares each
\* control-point input with a value of shape (vec_size, n_cp), all ones when
\* absent, and sizes the engine from the first row of that value.
C9_DefaultCpValuesAccepted ==
    LET B == options.vec_size
    IN  (/\ SetupCalled /\ ~BadGridConfig
         /\ \A i \in 1..Len(_spline_cache) :
                NominalCpVal(_spline_cache[i].y_cp_val, B, _n_cp.val)) =>
            /\ last_call.raised = NoExc
            /\ \A i \in 1..Len(_spline_cache) :
                LET s == _spline_cache[i]
                IN  /\ s.y_cp_name \in DOMAIN var_inputs
                    /\ var_inputs[s.y_cp_name].shape = <<B, _n_cp.val>>
                    /\ s.y_cp_val.isNone =>
                        var_inputs[s.y_cp_name] = np_ones(<<B, _n_cp.val>>)
                    /\ s.y_interp_name \in DOMAIN interps
                    /\ interps[s.y_interp_name].values =
                        FirstRow(var_inputs[s.y_cp_name])

----------------------------------------------------------------------------
(* Properties of compute *)

ComputeCalled == last_call.op = "compute"

\* C10: in every compute call every engine is evaluated with its
\* derivative-request flag set, its other derivative mode cleared and its
\* query locations those of options['x_interp_val'] at that call, whatever
\* earlier calls left in the engine.
C10_EnginePreparedBeforeEvaluation ==
    ComputeCalled =>
        \A i \in 1..Len(last_call.evals) :
            LET e == last_call.evals[i]
            IN  /\ e._compute_d_dvalues
                /\ ~e._compute_d_dx
                /\ e.x_interp = options.x_interp_val

C10_Witness ==
    /\ ComputeCalled
    /\ Len(last_call.evals) = 2
    /\ last_call.raised = NoExc
    /\ options.x_interp_val = XInterp(2, 1)
    /\ \A o \in DOMAIN interps : interps[o].x_interp = XInterp(2, 1)

\* The splines that come after output o in the iteration over interps.
After(o) ==
    {iter_order[k] : k \in {n \in 1..Len(iter_order) :
        \E m \in 1..(n - 1) : iter_order[m] = o}}

\* C6: when an engine's evaluation raises ValueError in a compute call, the
\* call ends with a ValueError whose message names the failing output and
\* contains the engine's message; the engine was evaluated once, nothing is
\* written to the failing output, and no later spline is evaluated or
\* written in that call.
C6_EngineErrorEndsCall ==
    [][last_call'.op = "compute" =>
        \A i \in 1..Len(last_call'.evals) :
            LET e == last_call'.evals[i]
            IN  e.raised.type = "ValueError" =>
                /\ last_call'.raised =
                    Exc("ValueError", <<MsgInterpolating, e.out>> \o e.raised.msg)
                /\ i = Len(last_call'.evals)
                /\ Cardinality({k \in 1..Len(last_call'.evals) :
                        last_call'.evals[k].out = e.out}) = 1
                /\ outputs'[e.out] = outputs[e.out]
                /\ \A o \in After(e.out) :
                    /\ \A k \in 1..Len(last_call'.evals) : last_call'.evals[k].out # o
                    /\ outputs'[o] = outputs[o]
                    /\ interps'[o] = interps[o]]_vars

C6_Witness ==
    /\ ComputeCalled
    /\ Len(iter_order) = 2
    /\ last_call.at = iter_order[1]
    /\ last_call.raised = Exc("ValueError", <<MsgInterpolating, iter_order[1], MsgEngine>>)
    /\ outputs[iter_order[1]] # var_outputs[iter_order[1]]

----------------------------------------------------------------------------
(* Properties of compute_partials *)

PartialsCalled == last_call.op = "compute_partials"

Pos(o) == CHOOSE k \in 1..Len(iter_order) : iter_order[k] = o
\* The call got as far as the spline of output o.
Reached(o) == last_call.raised = NoExc \/ Pos(o) <= Pos(last_call.at)
Key(o) == <<o, interp_to_cp[o]>>

\* The three derivative sources: one (vec_size, n_interp, n_cp) array, one
\* sparse (n_interp, n_cp) matrix, or none cached.
BatchVarying(o) ==
    /\ interps[o]._d_dvalues.kind = "ndarray"
    /\ interps[o]._d_dvalues.shape =
        <<options.vec_size, Len(options.x_interp_val), _n_cp.val>>
BatchInvariant(o) ==
    /\ interps[o]._d_dvalues.kind = "sparse"
    /\ interps[o]._d_dvalues.shape = <<Len(options.x_interp_val), _n_cp.val>>
PointQueried(o) == interps[o]._d_dvalues.kind = "None"

\* The derivative of interpolated element (b, k) of output o with respect
\* to control element (b, j), all numbered from 0: entry [b, k, j] of the
\* engine's array, entry [k, j] of its sparse matrix, or entry j of the
\* gradient the engine gives for query location k.
Derivative(o, b, k, j) ==
    LET d == interps[o]._d_dvalues
    IN  IF BatchVarying(o) THEN d.data[Ravel(<<b, k, j>>, d.shape) + 1]
        ELSE IF BatchInvariant(o) THEN d.data[Ravel(<<k, j>>, d.shape) + 1]
        ELSE training_gradients(interps[o],
                                <<options.x_interp_val[k + 1]>>).data[j + 1]

\* C4: in each of the three derivative-source cases compute_partials writes
\* for the spline a value array as long as its declared rows and cols whose
\* entry i is the derivative of interpolated element (b, k) with respect to
\* control element (b, j), where rows[i] = b*n_interp + k and cols[i] =
\* b*n_cp + j.
C4_ValuesMatchPattern ==
    PartialsCalled =>
        \A o \in DOMAIN interps :
            (Reached(o) /\ (BatchVarying(o) \/ BatchInvariant(o) \/ PointQueried(o))) =>
                LET K == Len(options.x_interp_val)
                    J == _n_cp.val
                    d == declared_partials[o]
                IN  /\ last_call.at # o
                    /\ Key(o) \in DOMAIN partials
                    /\ Len(partials[Key(o)]) = Len(d.rows)
                    /\ \A i \in 1..Len(d.rows) :
                        partials[Key(o)][i] =
                            Derivative(o, d.rows[i] \div K, d.rows[i] % K, d.cols[i] % J)

\* C5: a batch-invariant (n_interp, n_cp) derivative matrix is replicated
\* across all vec_size batch rows: every per-batch block of the assembled
\* array equals the matrix, for every vec_size, n_interp and n_cp.
C5_BatchInvariantReplicated ==
    PartialsCalled =>
        \A o \in DOMAIN interps :
            (Reached(o) /\ BatchInvariant(o)) =>
                LET B == options.vec_size
                    K == Len(options.x_interp_val)
                    J == _n_cp.val
                IN  /\ last_call.at # o
                    /\ Key(o) \in DOMAIN partials
                    /\ Len(partials[Key(o)]) = B * K * J
                    /\ \A b \in 0..(B - 1), i \in 1..(K * J) :
                        partials[Key(o)][b * K * J + i] = interps[o]._d_dvalues.data[i]

\* The cached derivative has a shape other than the expected ones.
ShapeMismatch(o) == ~(BatchVarying(o) \/ BatchInvariant(o) \/ PointQueried(o))
\* The exception names the spline it is about.
NamesSpline(exc, o) == \E k \in 1..Len(exc.msg) : exc.msg[k] = o

\* C8: when the derivative an engine produced has a shape inconsistent with
\* vec_size, n_interp and n_cp, compute_partials ends at that spline with an
\* error that names the spline, and writes no value array for it.
C8_ShapeMismatchDiagnosed ==
    [][last_call'.op = "compute_partials" =>
        \A o \in DOMAIN interps :
            (ShapeMismatch(o) /\
             (last_call'.raised = NoExc \/ Pos(o) <= Pos(last_call'.at))) =>
                /\ last_call'.at = o
                /\ last_call'.raised # NoExc
                /\ NamesSpline(last_call'.raised, o)
                /\ Key(o) \in DOMAIN partials' <=> Key(o) \in DOMAIN partials
                /\ Key(o) \in DOMAIN partials => partials'[Key(o)] = partials[Key(o)]]_vars

====
